---- MODULE Spec2Model ----
(***************************************************************************)
(* State-machine model of the google-photos-takeout tools:                 *)
(*   organize_takeout.py  - moves media files into date folders, in a      *)
(*                          ThreadPoolExecutor;                            *)
(*   analyzer.py          - counts files by extension, sizes and dates;    *)
(*   cleanup_takeout.py   - lists media, dumps metadata, removes empty     *)
(*                          directories.                                   *)
(* Each tool has its own specification (SpecOrganize, SpecCollision,       *)
(* SpecAnalyze, SpecCleanup) over one set of variables; the variables of   *)
(* the tools that do not run stay at their initial values.                 *)
(***************************************************************************)
EXTENDS Integers, Sequences, FiniteSets, TLC

\* ------------------------------------------------------------------ bounds
\* Most files the source tree of organize holds.
MaxFiles == 2
\* Largest --workers value tried.
MaxWorkers == 2
\* Most date tags one ExifTool response holds.
MaxTagsPresent == 2
\* Most files the tree analyze walks holds.
MaxTreeFiles == 2

VARIABLES
    \* ---- common to the three main() functions
    pc,                     \* position of the main thread
    source_isdir,           \* os.path.isdir(<source root argument>)
    exit_code,              \* process exit status, -1 while running
    reports,                \* report files written so far
    log,                    \* logging records emitted, <<level, what, subject>>
    \* ---- organize_takeout.py
    source_files,           \* media candidates under the source root, in os.walk order
    max_workers,            \* --workers
    files_to_process,       \* organize_photos_by_date: the enumerated list
    tstate,                 \* per file: where its process_file task stands
    date_taken,             \* per file: process_file's local date_taken
    files_without_datetime, \* self.files_without_datetime
    fwd_writers,            \* threads that have mutated files_without_datetime
    n_collected,            \* futures the as_completed loop has consumed
    dirs,                   \* target folders that exist
    dest,                   \* content found at each target path
    at_source,              \* files still at their source path
    exported,               \* content of files_without_datetime.json
    preexisting,            \* target paths that held a file before the run
    prev_run,               \* outcome of an earlier run on the same input
    \* ---- analyzer.py
    tree,                   \* extensions (as named) of the files os.walk yields, in order
    walk_pos,               \* index in tree of the next file analyze_files visits
    file_counts,            \* self.file_counts
    file_sizes,             \* self.file_sizes
    creation_dates,         \* self.creation_dates
    unknown_files,          \* self.unknown_files (files named by their index in tree)
    last_query,             \* get_photo_date's latest ExifTool query: <<status, metadata>>
    export_dirs,            \* directories export_* created
    \* ---- cleanup_takeout.py
    dry_run,                \* --dry-run
    tree0,                  \* directories under the root when cleanup starts
    present,                \* directories that exist now
    files_in,               \* per directory: extensions of the files it holds
    todo                    \* delete_empty_folders: directories os.walk has yet to yield

organizeVars == <<source_files, max_workers, files_to_process, tstate, date_taken,
                  files_without_datetime, fwd_writers, n_collected, dirs, dest,
                  at_source, exported, preexisting, prev_run>>
commonVars == <<pc, source_isdir, exit_code, reports, log>>
analyzeVars == <<tree, walk_pos, file_counts, file_sizes, creation_dates, unknown_files,
                 last_query, export_dirs>>
cleanupVars == <<dry_run, tree0, present, files_in, todo>>
vars == <<commonVars, organizeVars, analyzeVars, cleanupVars>>

\* ------------------------------------------------------------- utilities
Range(s) == {s[i] : i \in 1..Len(s)}

Min(S) == CHOOSE x \in S : \A y \in S : x <= y

\* The subsequence of s whose elements satisfy membership in S, order kept.
RECURSIVE Restrict(_, _)
Restrict(s, S) ==
    IF s = <<>> THEN <<>>
    ELSE IF Head(s) \in S THEN <<Head(s)>> \o Restrict(Tail(s), S)
         ELSE Restrict(Tail(s), S)

\* ------------------------------------------------- extensions (config.ini)
PICTURE_EXTENSIONS == <<".jpg", ".heic">>
VIDEO_EXTENSIONS == <<".mp4">>

\* str.lower() on the extension strings the model uses.
Lower(s) ==
    CASE s = ".JPG" -> ".jpg"
      [] s = ".Mp4" -> ".mp4"
      [] OTHER -> s

\* ------------------------------------------------------- date resolution
datetime_tags == <<"EXIF:DateTimeOriginal", "EXIF:CreateDate", "EXIF:ModifyDate",
                   "EXIF:DateTimeDigitized", "QuickTime:CreateDate",
                   "ICC_Profile:ProfileDateTime">>

\* Tag values as ExifTool prints them, "YYYY:MM:DD HH:MM:SS", held as the six
\* numbers.  The third is the all-zero date cameras write for an unset clock.
DateStrs == { <<2020, 5, 1, 10, 30, 0>>,
              <<2021, 12, 31, 23, 59, 59>>,
              <<0, 0, 0, 0, 0, 0>> }

\* What et.get_tags returns for one file: the tags present, with their values.
Responses ==
    UNION { [S -> DateStrs] :
            S \in {T \in SUBSET Range(datetime_tags) : Cardinality(T) <= MaxTagsPresent} }

\* Python's None, as a value of the shape of a datetime.
None == [year |-> 0, month |-> 0, day |-> 0, hour |-> 0, minute |-> 0, second |-> 0]

DaysInMonth(y, m) ==
    IF m \in {4, 6, 9, 11} THEN 30
    ELSE IF m = 2
         THEN (IF (y % 4 = 0 /\ y % 100 # 0) \/ y % 400 = 0 THEN 29 ELSE 28)
         ELSE 31

\* datetime.strptime(date_str, '%Y:%m:%d %H:%M:%S'): <<"ok", datetime>> or
\* <<"raise", None>> (ValueError).
strptime(s) ==
    IF /\ s[1] \in 1..9999
       /\ s[2] \in 1..12
       /\ s[3] \in 1..DaysInMonth(s[1], s[2])
       /\ s[4] \in 0..23
       /\ s[5] \in 0..59
       /\ s[6] \in 0..61
    THEN <<"ok", [year |-> s[1], month |-> s[2], day |-> s[3],
                  hour |-> s[4], minute |-> s[5], second |-> s[6]]>>
    ELSE <<"raise", None>>

\* Index of the first tag of datetime_tags present in a response, 0 if none.
FirstTagPresent(metadata) ==
    LET found == {i \in 1..Len(datetime_tags) : datetime_tags[i] \in DOMAIN metadata}
    IN IF found = {} THEN 0 ELSE Min(found)

\* OrganizeTakeout.get_photo_date on a query that succeeded:
\* <<"ok", datetime>>, <<"none", None>> (no tag; the caller's list is appended to)
\* or <<"raise", None>> (strptime's ValueError leaves the function).
Organize_get_photo_date(metadata) ==
    LET i == FirstTagPresent(metadata)
    IN IF i = 0 THEN <<"none", None>>
       ELSE strptime(metadata[datetime_tags[i]])

\* ------------------------------------------------------ organize: inputs
\* Files the source tree may hold: <<directory, stem, extension>>.
SrcPaths == { <<"a", "x", ".jpg">>, <<"b", "x", ".jpg">>,
              <<"a", "y", ".JPG">>, <<"b", "notes", ".md">> }

\* One fixed os.walk order of SrcPaths.
WalkOrder == << <<"a", "x", ".jpg">>, <<"a", "y", ".JPG">>,
                <<"b", "notes", ".md">>, <<"b", "x", ".jpg">> >>

basename(f) == <<f[2], f[3]>>

\* file.lower().endswith(self.photo_extensions + self.video_extensions)
IsMedia(f) == Lower(f[3]) \in Range(PICTURE_EXTENSIONS) \cup Range(VIDEO_EXTENSIONS)

Undated == <<"dest", "undated">>

\* os.path.join(destination_folder, str(year), month, day)
DateFolder(d) == <<"dest", d.year, d.month, d.day>>

\* process_file's target_folder for a resolved date_taken.
target_folder(d) == IF d # None THEN DateFolder(d) ELSE Undated

ParsedDates == {strptime(s)[2] : s \in {t \in DateStrs : strptime(t)[1] = "ok"}}

Folders == {Undated} \cup {DateFolder(d) : d \in ParsedDates}

TargetPaths == {<<fo, basename(f)>> : fo \in Folders, f \in {g \in SrcPaths : IsMedia(g)}}

\* The empty slot of a path, and a file that was at a target path before the run.
NoFile == <<>>
Old == <<"old">>

TargetOf(f) == <<target_folder(date_taken[f]), basename(f)>>

\* ------------------------------------------------------ organize: state
NoRun == <<>>

Media(S) == {f \in S : IsMedia(f)}

InFlight == {f \in SrcPaths : tstate[f] \in {"check", "mkdir", "move"}}

Done == {f \in SrcPaths : tstate[f] = "done"}

\* The task the executor hands to the next free worker: the first one submitted
\* that has not started.
NextQueued ==
    LET q == {i \in 1..Len(files_to_process) : tstate[files_to_process[i]] = "queued"}
    IN files_to_process[Min(q)]

DestOf(occ) == [p \in TargetPaths |-> IF p \in occ THEN Old ELSE NoFile]

\* The extension list main builds: set(picture_extensions + video_extensions).
extensions == Range(PICTURE_EXTENSIONS) \cup Range(VIDEO_EXTENSIONS)

NoQuery == <<"none", <<>> >>

\* analyzer.py's state after AnalyzeTakeout.__init__, over an empty tree.
AnalyzeIdle ==
    /\ tree = <<>>
    /\ walk_pos = 1
    /\ file_counts = [e \in extensions |-> 0]
    /\ file_sizes = <<>>
    /\ creation_dates = <<>>
    /\ unknown_files = <<>>
    /\ last_query = NoQuery
    /\ export_dirs = {}

\* cleanup_takeout.py not running.
CleanupIdle ==
    /\ dry_run = FALSE
    /\ tree0 = {}
    /\ present = {}
    /\ files_in = <<>>
    /\ todo = <<>>

OrganizeIdle ==
    /\ files_to_process = <<>>
    /\ tstate = [f \in SrcPaths |-> "none"]
    /\ date_taken = [f \in SrcPaths |-> None]
    /\ files_without_datetime = <<>>
    /\ fwd_writers = {}
    /\ n_collected = 0
    /\ exported = <<>>

CommonInit ==
    /\ pc = "start"
    /\ exit_code = -1
    /\ reports = {}
    /\ log = {}

\* A source tree of at most MaxFiles media files (none if the root is no
\* directory), an empty destination.
InitOrganize ==
    /\ CommonInit
    /\ source_isdir \in BOOLEAN
    /\ \E S \in SUBSET SrcPaths :
          /\ Cardinality(Media(S)) <= MaxFiles
          /\ source_isdir \/ S = {}
          /\ source_files = Restrict(WalkOrder, S)
          /\ at_source = S
    /\ max_workers \in 1..MaxWorkers
    /\ preexisting = {}
    /\ dirs = {}
    /\ dest = DestOf({})
    /\ prev_run = NoRun
    /\ OrganizeIdle
    /\ AnalyzeIdle
    /\ CleanupIdle

\* ---------------------------------------------------- organize: actions
\* organize_takeout.main: the isdir check, then organize_photos_by_date's walk and
\* the submission of one process_file task per enumerated file.
Organize_main ==
    /\ pc = "start"
    /\ IF ~source_isdir
       THEN /\ log' = log \cup {<<"ERROR", "not a valid directory", <<"source">> >>}
            /\ exit_code' = 1
            /\ pc' = "exited"
            /\ UNCHANGED <<files_to_process, tstate>>
       ELSE /\ files_to_process' = Restrict(source_files, Media(Range(source_files)))
            /\ tstate' = [f \in SrcPaths |->
                            IF f \in Media(Range(source_files)) THEN "queued" ELSE "none"]
            /\ pc' = "collect"
            /\ UNCHANGED <<log, exit_code>>
    /\ UNCHANGED <<source_isdir, reports, source_files, max_workers, date_taken,
                   files_without_datetime, fwd_writers, n_collected, dirs, dest,
                   at_source, exported, preexisting, prev_run, analyzeVars, cleanupVars>>

\* process_file's except clause: the error is logged and the task ends.
TaskFails(f, exc) ==
    /\ log' = log \cup {<<"ERROR", exc, f>>}
    /\ tstate' = [tstate EXCEPT ![f] = "done"]

\* A free worker takes the next task and runs get_photo_date.  The ExifTool
\* query fails or answers with some response.
get_photo_date ==
    /\ pc = "collect"
    /\ \E f \in SrcPaths :
        /\ tstate[f] = "queued"
        /\ f = NextQueued
        /\ Cardinality(InFlight) < max_workers
        /\ \E query_ok \in BOOLEAN, metadata \in Responses :
            LET r == Organize_get_photo_date(metadata)
            IN IF ~query_ok
               THEN /\ TaskFails(f, "ExifToolError")
                    /\ UNCHANGED <<date_taken, files_without_datetime, fwd_writers>>
               ELSE IF r[1] = "raise"
               THEN /\ TaskFails(f, "ValueError")
                    /\ UNCHANGED <<date_taken, files_without_datetime, fwd_writers>>
               ELSE IF r[1] = "none"
               THEN /\ files_without_datetime' = Append(files_without_datetime, f)
                    /\ fwd_writers' = fwd_writers \cup {"worker"}
                    /\ date_taken' = [date_taken EXCEPT ![f] = None]
                    /\ tstate' = [tstate EXCEPT ![f] = "check"]
                    /\ UNCHANGED log
               ELSE /\ date_taken' = [date_taken EXCEPT ![f] = r[2]]
                    /\ tstate' = [tstate EXCEPT ![f] = "check"]
                    /\ UNCHANGED <<log, files_without_datetime, fwd_writers>>
    /\ UNCHANGED <<pc, source_isdir, exit_code, reports, source_files, max_workers,
                   files_to_process, n_collected, dirs, dest, at_source, exported,
                   preexisting, prev_run, analyzeVars, cleanupVars>>

\* if not os.path.exists(target_folder)
check_exists ==
    /\ pc = "collect"
    /\ \E f \in SrcPaths :
        /\ tstate[f] = "check"
        /\ tstate' = [tstate EXCEPT ![f] =
                        IF target_folder(date_taken[f]) \in dirs THEN "move" ELSE "mkdir"]
    /\ UNCHANGED <<commonVars, source_files, max_workers, files_to_process, date_taken,
                   files_without_datetime, fwd_writers, n_collected, dirs, dest,
                   at_source, exported, preexisting, prev_run, analyzeVars, cleanupVars>>

\* os.makedirs(target_folder): FileExistsError when the folder is there by now.
makedirs ==
    /\ pc = "collect"
    /\ \E f \in SrcPaths :
        /\ tstate[f] = "mkdir"
        /\ IF target_folder(date_taken[f]) \in dirs
           THEN /\ TaskFails(f, "FileExistsError")
                /\ UNCHANGED dirs
           ELSE /\ dirs' = dirs \cup {target_folder(date_taken[f])}
                /\ tstate' = [tstate EXCEPT ![f] = "move"]
                /\ UNCHANGED log
    /\ UNCHANGED <<pc, source_isdir, exit_code, reports, source_files, max_workers,
                   files_to_process, date_taken, files_without_datetime, fwd_writers,
                   n_collected, dest, at_source, exported, preexisting, prev_run, analyzeVars, cleanupVars>>

\* What shutil.move(src, dst) can do with a regular file: os.rename succeeds
\* ("renamed"); os.rename raises OSError and the fallback copies the file and
\* unlinks the source ("copied"), or the copy raises ("copy_failed"), or the copy
\* is made and os.unlink(src) raises ("unlink_failed").
MoveOutcomes == {"renamed", "copied", "copy_failed", "unlink_failed"}

\* Whether the outcome puts the file at the destination / takes it from the source.
Arrives(outcome) == outcome \in {"renamed", "copied", "unlink_failed"}

\* Mutant of Leaves: the source is unlinked although the copy raised.
Leaves_unlinks_after_failed_copy(outcome) ==
    outcome \in {"renamed", "copied", "copy_failed"}

Leaves(outcome) == outcome \in {"renamed", "copied"}

\* shutil.move(file_path, os.path.join(target_folder, basename)) and the log line.
move ==
    /\ pc = "collect"
    /\ \E f \in SrcPaths, outcome \in MoveOutcomes :
        /\ tstate[f] = "move"
        /\ dest' = IF Arrives(outcome) THEN [dest EXCEPT ![TargetOf(f)] = f] ELSE dest
        /\ at_source' = IF Leaves(outcome) THEN at_source \ {f} ELSE at_source
        /\ log' = log \cup {IF outcome \in {"renamed", "copied"}
                            THEN <<"INFO", "Moved", f>>
                            ELSE <<"ERROR", "OSError", f>>}
        /\ tstate' = [tstate EXCEPT ![f] = "done"]
    /\ UNCHANGED <<pc, source_isdir, exit_code, reports, source_files, max_workers,
                   files_to_process, date_taken, files_without_datetime, fwd_writers,
                   n_collected, dirs, exported, preexisting, prev_run, analyzeVars, cleanupVars>>

\* One turn of `for future in as_completed(futures)`: a finished future is
\* taken; future.result() returns None, process_file having caught everything.
collect ==
    /\ pc = "collect"
    /\ n_collected < Cardinality(Done)
    /\ n_collected' = n_collected + 1
    /\ UNCHANGED <<commonVars, source_files, max_workers, files_to_process, tstate,
                   date_taken, files_without_datetime, fwd_writers, dirs, dest,
                   at_source, exported, preexisting, prev_run, analyzeVars, cleanupVars>>

\* Mutant of AllCollected: the loop stops at the first future that completes.
AllCollected_first_completed == n_collected >= 1 \/ files_to_process = <<>>

\* The as_completed loop is over, and with it the executor's with-block.
AllCollected == n_collected = Len(files_to_process)

\* self.export_to_json(), then main returns.
export_to_json ==
    /\ pc = "collect"
    /\ AllCollected
    /\ exported' = files_without_datetime
    /\ reports' = reports \cup {"files_without_datetime.json"}
    /\ exit_code' = 0
    /\ pc' = "exited"
    /\ UNCHANGED <<source_isdir, log, source_files, max_workers, files_to_process,
                   tstate, date_taken, files_without_datetime, fwd_writers,
                   n_collected, dirs, dest, at_source, preexisting, prev_run, analyzeVars, cleanupVars>>

NextOrganize ==
    \/ Organize_main
    \/ get_photo_date
    \/ check_exists
    \/ makedirs
    \/ move
    \/ collect
    \/ export_to_json

SpecOrganize == InitOrganize /\ [][NextOrganize]_vars

\* --------------------------------------------------- organize: run twice
\* The files organize_photos_by_date enumerated.
Enumerated == Range(files_to_process)

\* process_file logged an error for the file.
Failed(f) == \E exc \in {"ExifToolError", "ValueError", "FileExistsError", "OSError"} :
                <<"ERROR", exc, f>> \in log

\* The error came out of get_photo_date: the query or strptime raised.
ResolverFailed(f) == <<"ERROR", "ExifToolError", f>> \in log
                     \/ <<"ERROR", "ValueError", f>> \in log

\* The file's task has computed its target path.
HasTarget(f) == f \in Enumerated /\ tstate[f] \in {"check", "mkdir", "move", "done"}
                /\ ~ResolverFailed(f)

\* Two enumerated files share a target path, or one's target path was occupied.
Collision ==
    \/ \E f, g \in Enumerated :
          f # g /\ HasTarget(f) /\ HasTarget(g) /\ TargetOf(f) = TargetOf(g)
    \/ \E f \in Enumerated : HasTarget(f) /\ TargetOf(f) \in preexisting

\* main has returned normally.
Returned == pc = "exited" /\ exit_code = 0

\* The earlier run is kept and the same input is organized again: main() run a
\* second time on an identical copy of the source tree and destination.  Taken
\* only after a run without errors in which two files met at one target path, or
\* a file met one that was there before.
Rerun ==
    /\ Returned
    /\ prev_run = NoRun
    /\ \A f \in Enumerated : ~Failed(f)
    /\ Collision
    /\ prev_run' = <<dest, at_source, date_taken>>
    /\ pc' = "start"
    /\ exit_code' = -1
    /\ reports' = {}
    /\ log' = {}
    /\ files_to_process' = <<>>
    /\ tstate' = [f \in SrcPaths |-> "none"]
    /\ date_taken' = [f \in SrcPaths |-> None]
    /\ files_without_datetime' = <<>>
    /\ fwd_writers' = {}
    /\ n_collected' = 0
    /\ exported' = <<>>
    /\ dirs' = {p[1] : p \in preexisting}
    /\ dest' = DestOf(preexisting)
    /\ at_source' = Range(source_files)
    /\ UNCHANGED <<source_isdir, source_files, max_workers, preexisting,
                   analyzeVars, cleanupVars>>

\* As InitOrganize, with at most one file at a target path before the run.
InitCollision ==
    /\ CommonInit
    /\ source_isdir \in BOOLEAN
    /\ \E S \in SUBSET SrcPaths :
          /\ Cardinality(Media(S)) <= MaxFiles
          /\ source_isdir \/ S = {}
          /\ source_files = Restrict(WalkOrder, S)
          /\ at_source = S
    /\ max_workers \in 1..MaxWorkers
    /\ preexisting \in {{}} \cup {{p} : p \in TargetPaths}
    /\ dirs = {p[1] : p \in preexisting}
    /\ dest = DestOf(preexisting)
    /\ prev_run = NoRun
    /\ OrganizeIdle
    /\ AnalyzeIdle
    /\ CleanupIdle

NextCollision == NextOrganize \/ Rerun

SpecCollision == InitCollision /\ [][NextCollision]_vars

\* ------------------------------------------------------ organize: claims
AtTarget(f) == HasTarget(f) /\ dest[TargetOf(f)] = f

Elsewhere(f) == \E p \in TargetPaths : dest[p] = f /\ (HasTarget(f) => p # TargetOf(f))

Moved(f) == <<"INFO", "Moved", f>> \in log

\* C1: the report is written and the call returns only after every process_file
\* task has run to its end; each task has then either moved its file or logged
\* its failure, and when exactly one failed the other N-1 files are moved and
\* that one failure is the only one recorded.
C1_AllTasksFinishBeforeExport ==
    /\ ("files_without_datetime.json" \in reports \/ pc = "exited") /\ source_isdir
         => /\ \A f \in Enumerated : tstate[f] = "done"
            /\ exported = files_without_datetime
    /\ Returned =>
         /\ \A f \in Enumerated :
              /\ Moved(f) # Failed(f)
              /\ Moved(f) => /\ f \notin at_source
                             /\ target_folder(date_taken[f]) \in dirs
         /\ Cardinality({f \in Enumerated : Failed(f)}) = 1 =>
              /\ Cardinality({f \in Enumerated : Moved(f)}) = Len(files_to_process) - 1
              /\ Cardinality({r \in log : r[1] = "ERROR"}) = 1

C1_Witness ==
    /\ Returned
    /\ Len(files_to_process) = 2
    /\ Cardinality({f \in Enumerated : Failed(f)}) = 1
    /\ Cardinality({f \in Enumerated : Moved(f) /\ AtTarget(f)}) = 1

\* C2: no worker gets an error because the target folder already exists: the
\* existence check and the creation are safe under every interleaving, so no
\* file's processing ends in FileExistsError.
C2_MakedirsIsConcurrentSafe ==
    \A f \in SrcPaths : <<"ERROR", "FileExistsError", f>> \notin log

\* C3: date resolution never raises to process_file: a file whose metadata query
\* failed, or whose first tag present did not parse, ends in destination/undated
\* and in files_without_datetime, as a file without any date tag does.
C3_ResolverDegradesToUndated ==
    \A f \in Enumerated :
        tstate[f] = "done" /\ ResolverFailed(f)
            => /\ dest[<<Undated, basename(f)>>] = f
               /\ f \in Range(files_without_datetime)

\* C4: files_without_datetime is written by the coordinating thread only, and only
\* for files whose future has completed; no worker thread writes to it.
C4_CoordinatorOwnsAggregate ==
    /\ fwd_writers \subseteq {"main"}
    /\ \A f \in Range(files_without_datetime) : tstate[f] = "done"

\* C5: when two files meet at one target path, or a file meets one that was there
\* before the run, two runs on the same input that resolve the same dates and log
\* no error end with the same content at every target path and the same files
\* left at the source, whatever the scheduling.
C5_CollisionOutcomeIsDeterministic ==
    /\ prev_run # NoRun
    /\ Returned
    /\ \A f \in Enumerated : ~Failed(f)
    /\ date_taken = prev_run[3]
    => /\ dest = prev_run[1]
       /\ at_source = prev_run[2]

NoCollision == ~Collision /\ preexisting = {}

\* C10, as claimed: after the call returns, with no two files sharing a target
\* path and no target occupied before, each enumerated file is at exactly one of
\* its source path and its target path, and nowhere else.
C10_ExactlyOnePlace ==
    Returned /\ NoCollision =>
        \A f \in Enumerated :
            /\ (f \in at_source) # AtTarget(f)
            /\ ~Elsewhere(f)

\* C10, amended: each enumerated file is at its source path or at its target path
\* and nowhere else; it is at both only when shutil.move copied it and then failed
\* to unlink the source, which is logged as that file's error; a file whose
\* processing logged no error is at its target path only.
C10_AtLeastOnePlace ==
    Returned /\ NoCollision =>
        \A f \in Enumerated :
            /\ f \in at_source \/ AtTarget(f)
            /\ ~Elsewhere(f)
            /\ (f \in at_source /\ AtTarget(f)) => <<"ERROR", "OSError", f>> \in log
            /\ ~Failed(f) => AtTarget(f) /\ f \notin at_source

C10_Witness ==
    /\ Returned
    /\ NoCollision
    /\ \E f, g \in Enumerated :
          /\ f # g
          /\ AtTarget(f) /\ f \notin at_source /\ ~Failed(f)
          /\ g \in at_source /\ ~AtTarget(g) /\ <<"ERROR", "OSError", g>> \in log

\* =============================================================== analyzer.py
\* Extensions, as named, of the files the analyzed tree may hold ("" for none).
FileExts == {".jpg", ".JPG", ".heic", ".md", ""}

\* os.path.getsize results.
Sizes == {512, 10240}

\* datetime.fromtimestamp(os.path.getctime(file_path)) results.
CTimes == {[year |-> 2019, month |-> 7, day |-> 4, hour |-> 8, minute |-> 0, second |-> 0]}

\* AnalyzeTakeout.get_photo_date: the one tag it asks for, parsed; None when the
\* query fails, the tag is absent or strptime raises (all caught and logged).
Analyze_get_photo_date(query_ok, metadata) ==
    IF query_ok /\ "EXIF:DateTimeOriginal" \in DOMAIN metadata
    THEN LET r == strptime(metadata["EXIF:DateTimeOriginal"])
         IN IF r[1] = "ok" THEN r[2] ELSE None
    ELSE None

\* A tree of at most MaxTreeFiles files; os.walk yields nothing when the root is
\* no directory.
InitAnalyze ==
    /\ CommonInit
    /\ source_isdir \in BOOLEAN
    /\ \E n \in 0..MaxTreeFiles :
          /\ tree \in [1..n -> FileExts]
          /\ source_isdir \/ n = 0
    /\ walk_pos = 1
    /\ file_counts = [e \in extensions |-> 0]
    /\ file_sizes = <<>>
    /\ creation_dates = <<>>
    /\ unknown_files = <<>>
    /\ last_query = NoQuery
    /\ export_dirs = {}
    /\ source_files = <<>>
    /\ at_source = {}
    /\ max_workers = 1
    /\ preexisting = {}
    /\ dirs = {}
    /\ dest = DestOf({})
    /\ prev_run = NoRun
    /\ OrganizeIdle
    /\ CleanupIdle

\* analyzer.main up to analyze_files: the analyzer is built and the configuration
\* read; the folder argument is not looked at.
Analyze_main ==
    /\ pc = "start"
    /\ pc' = "walk"
    /\ UNCHANGED <<source_isdir, exit_code, reports, log, organizeVars, analyzeVars,
                   cleanupVars>>

\* One file of analyze_files' walk, process_file included.
analyze_file ==
    /\ pc = "walk"
    /\ walk_pos <= Len(tree)
    /\ LET file_extension == Lower(tree[walk_pos])
       IN IF file_extension \in extensions
          THEN \E stat_ok, query_ok \in BOOLEAN, file_size \in Sizes,
                  metadata \in Responses, ctime \in CTimes :
                 IF ~stat_ok
                 THEN /\ log' = log \cup {<<"ERROR", "OSError", <<walk_pos>> >>}
                      /\ unknown_files' = Append(unknown_files, walk_pos)
                      /\ UNCHANGED <<file_counts, file_sizes, creation_dates, last_query>>
                 ELSE LET date == Analyze_get_photo_date(query_ok, metadata)
                          creation_date == IF date # None THEN date ELSE ctime
                      IN /\ file_counts' =
                               [file_counts EXCEPT ![file_extension] = @ + 1]
                         /\ file_sizes' = Append(file_sizes, file_size)
                         /\ creation_dates' = Append(creation_dates, creation_date)
                         /\ last_query' =
                               <<IF query_ok THEN "ok" ELSE "failed", metadata>>
                         /\ log' = IF query_ok /\ date = None
                                      /\ "EXIF:DateTimeOriginal" \notin DOMAIN metadata
                                   THEN log
                                   ELSE IF date = None
                                   THEN log \cup {<<"ERROR", "Failed to get photo date",
                                                    <<walk_pos>> >>}
                                   ELSE log
                         /\ UNCHANGED unknown_files
          ELSE /\ unknown_files' = Append(unknown_files, walk_pos)
               /\ UNCHANGED <<log, file_counts, file_sizes, creation_dates, last_query>>
    /\ walk_pos' = walk_pos + 1
    /\ UNCHANGED <<pc, source_isdir, exit_code, reports, tree, export_dirs,
                   organizeVars, cleanupVars>>

\* export_metrics: the folder is made and the three reports are written.
export_metrics ==
    /\ pc = "walk"
    /\ walk_pos > Len(tree)
    /\ export_dirs' = export_dirs \cup {"known_file_analysis"}
    /\ reports' = reports \cup {"file_counts.json", "file_size_distribution.json",
                                "creation_date_distribution.json"}
    /\ pc' = "export_unknown"
    /\ UNCHANGED <<source_isdir, exit_code, log, organizeVars, tree, walk_pos,
                   file_counts, file_sizes, creation_dates, unknown_files, last_query,
                   cleanupVars>>

\* export_unknown_files: the folder is made and unknown_files.txt written, or the
\* write raises IOError and the process exits with 1.  Then main returns.
export_unknown_files ==
    /\ pc = "export_unknown"
    /\ export_dirs' = export_dirs \cup {"unknown_file_analysis"}
    /\ \E write_ok \in BOOLEAN :
         IF write_ok
         THEN /\ reports' = reports \cup {"unknown_files.txt"}
              /\ exit_code' = 0
              /\ UNCHANGED log
         ELSE /\ log' = log \cup {<<"ERROR", "IOError", <<"unknown_files.txt">> >>}
              /\ exit_code' = 1
              /\ UNCHANGED reports
    /\ pc' = "exited"
    /\ UNCHANGED <<source_isdir, organizeVars, tree, walk_pos, file_counts, file_sizes,
                   creation_dates, unknown_files, last_query, cleanupVars>>

NextAnalyze ==
    \/ Analyze_main
    \/ analyze_file
    \/ export_metrics
    \/ export_unknown_files

SpecAnalyze == InitAnalyze /\ [][NextAnalyze]_vars

\* ------------------------------------------------------- analyzer: claims
Last(q) == q[Len(q)]

\* C6: analyze resolves a file's date as organize does: whenever organize's
\* resolver yields a date for a response, analyze records that same date, and
\* analyze takes the filesystem creation time only when the response holds none
\* of the six tags.
C6_AnalyzeResolvesLikeOrganize ==
    last_query[1] = "ok" =>
        LET metadata == last_query[2]
            organize == Organize_get_photo_date(metadata)
        IN /\ organize[1] = "ok" => Last(creation_dates) = organize[2]
           /\ Last(creation_dates) \in CTimes => FirstTagPresent(metadata) = 0

WalkDone == pc \in {"export_unknown", "exited"}

\* C7: after analyze_files every walked file is accounted for once:
\* file_counts[e] is the number of files whose lower-cased extension is e, and
\* unknown_files lists exactly the files whose extension is not configured, each
\* once, so none with a known extension.
C7_EveryFileAccountedOnce ==
    WalkDone =>
        /\ \A e \in extensions :
              file_counts[e] = Cardinality({i \in 1..Len(tree) : Lower(tree[i]) = e})
        /\ Range(unknown_files) = {i \in 1..Len(tree) : Lower(tree[i]) \notin extensions}
        /\ Len(unknown_files) = Cardinality(Range(unknown_files))

\* C8: a source root that is no directory makes main exit with a non-zero code
\* before any processing: when the process has ended nothing was enumerated or
\* moved, no directory was created or deleted, and no report was written.
C8_InvalidRootAborts ==
    ~source_isdir /\ pc = "exited" =>
        /\ exit_code # 0
        /\ reports = {}
        /\ export_dirs = {}
        /\ dirs = {}
        /\ present = tree0
        /\ files_to_process = <<>>

\* ======================================================== cleanup_takeout.py
\* Directories the cleaned tree may hold, as paths from the root.
CleanDirs == { <<"root">>, <<"root", "a">>, <<"root", "a", "c">>, <<"root", "b">> }

\* os.walk(root_folder, topdown=False) order over CleanDirs: children first.
BottomUp == << <<"root", "a", "c">>, <<"root", "a">>, <<"root", "b">>, <<"root">> >>

\* Extensions of the files a directory may hold.
CleanExts == {".jpg", ".txt"}

Parent(d) == SubSeq(d, 1, Len(d) - 1)

\* The dirs list os.walk yields with a directory: its subdirectories as scanned
\* on the way down, before anything below it was removed.
Subdirs(d) == {c \in tree0 : Len(c) > 1 /\ Parent(c) = d}

\* delete_empty_folders' test: not files and not dirs.
IsEmpty(d) == files_in[d] = {} /\ Subdirs(d) = {}

InitCleanup ==
    /\ CommonInit
    /\ source_isdir \in BOOLEAN
    /\ dry_run \in BOOLEAN
    /\ tree0 \in {T \in SUBSET CleanDirs :
                    /\ source_isdir <=> <<"root">> \in T
                    /\ \A d \in T : Len(d) > 1 => Parent(d) \in T}
    /\ present = tree0
    /\ files_in \in [tree0 -> SUBSET CleanExts]
    /\ todo = <<>>
    /\ source_files = <<>>
    /\ at_source = {}
    /\ max_workers = 1
    /\ preexisting = {}
    /\ dirs = {}
    /\ dest = DestOf({})
    /\ prev_run = NoRun
    /\ OrganizeIdle
    /\ tree = <<>>
    /\ walk_pos = 1
    /\ file_counts = [e \in extensions |-> 0]
    /\ file_sizes = <<>>
    /\ creation_dates = <<>>
    /\ unknown_files = <<>>
    /\ last_query = NoQuery
    /\ export_dirs = {}

\* cleanup_takeout.main: the isdir check, then the CleanupTakeout is built.
Cleanup_main ==
    /\ pc = "start"
    /\ IF ~source_isdir
       THEN /\ log' = log \cup {<<"ERROR", "Invalid directory specified", <<"source">> >>}
            /\ exit_code' = 1
            /\ pc' = "exited"
       ELSE /\ pc' = "process"
            /\ UNCHANGED <<log, exit_code>>
    /\ UNCHANGED <<source_isdir, reports, organizeVars, analyzeVars, cleanupVars>>

\* process_folders up to its dry_run test: the media files are listed and their
\* metadata extracted (ExifTool may raise, which nothing catches); then
\* delete_empty_folders is entered only when dry_run is not set.
process_folders ==
    /\ pc = "process"
    /\ \E extract_ok \in BOOLEAN :
         IF ~extract_ok
         THEN /\ exit_code' = 1
              /\ pc' = "exited"
              /\ UNCHANGED todo
         ELSE IF ~dry_run
         THEN /\ pc' = "delete"
              /\ todo' = Restrict(BottomUp, tree0)
              /\ UNCHANGED exit_code
         ELSE /\ pc' = "write"
              /\ UNCHANGED <<todo, exit_code>>
    /\ UNCHANGED <<source_isdir, reports, log, organizeVars, analyzeVars, dry_run, tree0,
                   present, files_in>>

\* One turn of delete_empty_folders' loop.
delete_empty_folders ==
    /\ pc = "delete"
    /\ todo # <<>>
    /\ LET root == Head(todo)
       IN IF IsEmpty(root)
          THEN IF ~dry_run
               THEN /\ present' = present \ {root}
                    /\ log' = log \cup {<<"INFO", "Deleted empty folder", root>>}
               ELSE /\ log' = log \cup {<<"INFO", "Would delete empty folder", root>>}
                    /\ UNCHANGED present
          ELSE /\ log' = log \cup {<<"INFO", "Would keep folder", root>>}
               /\ UNCHANGED present
    /\ todo' = Tail(todo)
    /\ UNCHANGED <<pc, source_isdir, exit_code, reports, organizeVars, analyzeVars,
                   dry_run, tree0, files_in>>

\* process_folders' two reports; then main returns.
write_reports ==
    /\ pc = "write" \/ (pc = "delete" /\ todo = <<>>)
    /\ reports' = reports \cup {"output_file", "exif_metadata_file"}
    /\ exit_code' = 0
    /\ pc' = "exited"
    /\ UNCHANGED <<source_isdir, log, organizeVars, analyzeVars, cleanupVars>>

NextCleanup ==
    \/ Cleanup_main
    \/ process_folders
    \/ delete_empty_folders
    \/ write_reports

SpecCleanup == InitCleanup /\ [][NextCleanup]_vars

\* -------------------------------------------------------- cleanup: claims
\* C9: when process_folders has run, with dry_run set no directory is removed and
\* a deletion intent is logged for every directory empty of files and of
\* subdirectories; with dry_run unset exactly those directories are removed, and
\* none that holds a file.
C9_DryRunLogsIntent ==
    Returned =>
        IF dry_run
        THEN /\ present = tree0
             /\ \A d \in tree0 :
                   IsEmpty(d) => <<"INFO", "Would delete empty folder", d>> \in log
        ELSE /\ tree0 \ present = {d \in tree0 : IsEmpty(d)}
             /\ \A d \in tree0 \ present : files_in[d] = {}

====
